---- MODULE Spec2Model ----
(***************************************************************************)
(* Voice-to-text transcriber: the session state machine and the transcript *)
(* assembler of the React component App, in the six variants the           *)
(* repository holds:                                                       *)
(*   "App"  src/App.tsx                                                    *)
(*   "P0"   src/unnamed/part_000                                           *)
(*   "P1"   src/unnamed/part_001                                           *)
(*   "P2"   src/unnamed/part_002                                           *)
(*   "P3a"  src/unnamed/part_003, lines 1-313                              *)
(*   "P3b"  src/unnamed/part_003, lines 316-693 (appendVerbatim)           *)
(* A JavaScript string is a sequence of one-character strings.  A handler  *)
(* runs atomically up to its next await (one event-loop task).             *)
(***************************************************************************)
EXTENDS Integers, Sequences, FiniteSets, TLC

(***************************************************************************)
(* Strings                                                                 *)
(***************************************************************************)
\* a character outside \x00-\x7F (a Devanagari letter)
NonAscii == "U+0928"

\* the value of a property that a message does not carry (no string equals it)
Undefined == << "<undefined>" >>

\* \s of the regular expressions, and what String.prototype.trim removes
IsSpace(c) == c \in {" ", "\t", "\n"}

\* [^\x00-\x7F] matches exactly the characters that are not ASCII
IsAscii(c) == c # NonAscii

\* String.prototype.toLowerCase on one character
LowerChar(c) ==
    CASE c = "A" -> "a"
      [] c = "B" -> "b"
      [] c = "H" -> "h"
      [] c = "I" -> "i"
      [] c = "T" -> "t"
      [] OTHER -> c

toLowerCase(s) == [i \in 1..Len(s) |-> LowerChar(s[i])]

RECURSIVE TrimStart(_)
TrimStart(s) ==
    IF s = << >> THEN << >>
    ELSE IF IsSpace(Head(s)) THEN TrimStart(Tail(s)) ELSE s

RECURSIVE TrimEnd(_)
TrimEnd(s) ==
    IF s = << >> THEN << >>
    ELSE IF IsSpace(s[Len(s)]) THEN TrimEnd(SubSeq(s, 1, Len(s) - 1)) ELSE s

\* the text left as it is, blanks at both ends included
trim_Identity(s) == s

\* String.prototype.trim
trim(s) == TrimEnd(TrimStart(s))

\* text.replace(/[^\x00-\x7F]/g, "")
stripNonRoman(text) == SelectSeq(text, IsAscii)

\* s.split(/\s+/).filter(w => w.length > 0): the maximal runs of non-space
\* characters of s, in order.  acc is the word being read.
RECURSIVE SplitFrom(_, _)
SplitFrom(s, acc) ==
    IF s = << >> THEN (IF acc = << >> THEN << >> ELSE << acc >>)
    ELSE IF IsSpace(Head(s))
         THEN (IF acc = << >> THEN << >> ELSE << acc >>) \o SplitFrom(Tail(s), << >>)
         ELSE SplitFrom(Tail(s), Append(acc, Head(s)))

splitWords(s) == SplitFrom(s, << >>)

\* words.join(" ")
RECURSIVE join(_)
join(words) ==
    IF words = << >> THEN << >>
    ELSE IF Len(words) = 1 THEN words[1]
    ELSE words[1] \o << " " >> \o join(Tail(words))

\* the first i words taken instead of the last i
sliceLast_First(words, i) == SubSeq(words, 1, i)

\* words.slice(-i)
sliceLast(words, i) == SubSeq(words, Len(words) - i + 1, Len(words))

\* words.slice(from) with a 0-based from
sliceFrom(words, from) == SubSeq(words, from + 1, Len(words))

Min(a, b) == IF a < b THEN a ELSE b

\* `${x}` of a value appended to a string with +=
ToStr(x) == IF x = Undefined
            THEN << "u", "n", "d", "e", "f", "i", "n", "e", "d" >>
            ELSE x

\* a JavaScript value used as a condition: undefined and "" are falsy
Truthy(x) == x # Undefined /\ x # << >>

(***************************************************************************)
(* appendVerbatim (variant P3b)                                            *)
(***************************************************************************)
\* a window of one word less
OverlapWindow_Seven == 8 - 1

\* the number of trailing words of the master transcript the loop inspects
OverlapWindow == 8

\* the scan run from 1 upwards: the shortest match instead of the longest
overlapIndex_Shortest(masterWords, incomingWords, i) ==
    LET hits == { k \in 1..i :
                    toLowerCase(join(sliceLast(masterWords, k)))
                      = toLowerCase(join(SubSeq(incomingWords, 1, k))) }
    IN IF hits = {} THEN -1 ELSE CHOOSE k \in hits : \A j \in hits : k <= j

\* the scan comparing the words as they are written, without toLowerCase
overlapIndex_CaseSensitive(masterWords, incomingWords, i) ==
    LET hits == { k \in 1..i :
                    join(sliceLast(masterWords, k)) = join(SubSeq(incomingWords, 1, k)) }
    IN IF hits = {} THEN -1 ELSE CHOOSE k \in hits : \A j \in hits : j <= k

\* the for loop of appendVerbatim: i from maxOverlap down to 1, first match
RECURSIVE overlapIndex(_, _, _)
overlapIndex(masterWords, incomingWords, i) ==
    IF i <= 0 THEN -1
    ELSE IF toLowerCase(join(sliceLast(masterWords, i)))
              = toLowerCase(join(SubSeq(incomingWords, 1, i)))
         THEN i
         ELSE overlapIndex(masterWords, incomingWords, i - 1)

\* the master transcript replaced by the delta instead of extended by it
appendVerbatim_Replace(master, incoming) ==
    IF ~Truthy(incoming) THEN master
    ELSE LET cleanedIncoming == trim(stripNonRoman(incoming)) IN
         IF cleanedIncoming = << >> THEN master ELSE cleanedIncoming

\* a delta without overlap dropped instead of appended
appendVerbatim_DropUnmatched(master, incoming) ==
    IF ~Truthy(incoming) THEN master
    ELSE LET cleanedIncoming == trim(stripNonRoman(incoming))
             masterWords == splitWords(trim(master))
             incomingWords == splitWords(cleanedIncoming)
             maxOverlap == Min(Min(Len(masterWords), Len(incomingWords)), OverlapWindow)
             found == overlapIndex(masterWords, incomingWords, maxOverlap)
         IN IF cleanedIncoming = << >> THEN master
            ELSE IF Len(masterWords) = 0 THEN cleanedIncoming
            ELSE IF found = -1 THEN master
            ELSE LET uniqueIncoming == join(sliceFrom(incomingWords, found)) IN
                 IF uniqueIncoming # << >>
                 THEN trim(master \o << " " >> \o uniqueIncoming)
                 ELSE master

\* appendVerbatim(master, incoming): the master transcript after the delta
appendVerbatim(master, incoming) ==
    IF ~Truthy(incoming) THEN master
    ELSE
      LET cleanedIncoming == trim(stripNonRoman(incoming)) IN
      IF cleanedIncoming = << >> THEN master
      ELSE
        LET masterWords == splitWords(trim(master))
            incomingWords == splitWords(cleanedIncoming)
        IN
        IF Len(masterWords) = 0 THEN cleanedIncoming
        ELSE
          LET maxOverlap == Min(Min(Len(masterWords), Len(incomingWords)), OverlapWindow)
              found == overlapIndex(masterWords, incomingWords, maxOverlap)
          IN
          IF found # -1
          THEN LET uniqueIncoming == join(sliceFrom(incomingWords, found)) IN
               IF uniqueIncoming # << >>
               THEN trim(master \o << " " >> \o uniqueIncoming)
               ELSE master
          ELSE trim(master \o << " " >> \o cleanedIncoming)

(***************************************************************************)
(* Bounds of the model                                                     *)
(***************************************************************************)
\* sessions that hold a resource or a pending call at the same time
MaxSessions == 2
\* a message is delivered while the transcript texts hold fewer characters
MaxChars == 3
\* audio frames handed to a connection or waiting for one, over a whole run
MaxFrames == 1

Variants == {"App", "P0", "P1", "P2", "P3a", "P3b"}
Sessions == 1..MaxSessions

\* the texts an inputTranscription carries: "", " ", "hi"
Deltas == { << >>, << " " >>, << "h", "i" >> }

\* msg.serverContent: it = an inputTranscription object is present, text = its
\* text property, tc = turnComplete
Msgs ==
    { [it |-> TRUE, text |-> t, tc |-> b] : t \in Deltas \cup {Undefined}, b \in BOOLEAN }
    \cup { [it |-> FALSE, text |-> Undefined, tc |-> b] : b \in BOOLEAN }

(***************************************************************************)
(* State                                                                   *)
(***************************************************************************)
VARIABLES
    variant,          \* which file is the running App component
    status,           \* state.status
    isRecording,      \* state.isRecording
    currentText,      \* state.currentText, the live transcript
    history,          \* state.history: the text of each IdeaSnippet, in order
    buffer,           \* the pending transcript ref (transcriptionBuffer,
                      \* currentTurnText, currentTranscriptionRef, turnDeltaRef,
                      \* activeTranscriptionRef, masterTranscriptRef)
    permanent,        \* permanentTranscriptRef (P2 only)
    sessionRef,       \* sessionRef / sessionPromiseRef / activeSessionRef: 0 is null
    streamRef,        \* streamRef.current: 0 is null
    audioContextRef,  \* audioContextRef.current: 0 is null
    conn,             \* per session: the connection of ai.live.connect
    stream,           \* per session: the MediaStream of getUserMedia
    ctx,              \* per session: the AudioContext
    startPc,          \* per session: where its startSession call stands
    awaiting,         \* per session: a stop/cleanup call awaits its ctx.close()
    processor,        \* per session: its ScriptProcessor: "none", "on" (onaudioprocess
                      \* set and the node connected), "queued" (on, and a frame
                      \* waits in a then() of the pending connect promise)
    frames,           \* the audio frames sent over an open connection so far
    lastCall          \* which of start and stop was called last: "none" before
                      \* both, "stopAgain" when stop was called more than once
                      \* since the last start

vars == << variant, status, isRecording, currentText, history, buffer, permanent,
           sessionRef, streamRef, audioContextRef, conn, stream, ctx, startPc,
           awaiting, processor, frames, lastCall >>

\* the mutable state as one record, so that a handler is a function on it
Cur ==
    [ status |-> status, isRecording |-> isRecording, currentText |-> currentText,
      history |-> history, buffer |-> buffer, permanent |-> permanent,
      sessionRef |-> sessionRef, streamRef |-> streamRef,
      audioContextRef |-> audioContextRef, conn |-> conn, stream |-> stream,
      ctx |-> ctx, startPc |-> startPc, awaiting |-> awaiting,
      processor |-> processor, frames |-> frames, lastCall |-> lastCall ]

\* session i holds nothing any more: its start call has returned, its
\* connection, stream and context are closed or were never made, nothing
\* awaits it and no ref names it
Ended(st, i) ==
    /\ st.startPc[i] = "done"
    /\ st.conn[i] \in {"none", "closed"}
    /\ st.stream[i] \in {"none", "stopped"}
    /\ st.ctx[i] \in {"none", "closed"}
    /\ ~st.awaiting[i]
    /\ st.sessionRef # i /\ st.streamRef # i /\ st.audioContextRef # i

\* an ended session is forgotten (its objects are garbage), which frees its
\* id; so is the processor of a context that runs no more: it never fires again
Forget(st) ==
    [st EXCEPT
       !.processor = [i \in Sessions |->
                        IF st.ctx[i] = "running" THEN st.processor[i] ELSE "none"],
       !.conn = [i \in Sessions |-> IF Ended(st, i) THEN "none" ELSE st.conn[i]],
       !.stream = [i \in Sessions |-> IF Ended(st, i) THEN "none" ELSE st.stream[i]],
       !.ctx = [i \in Sessions |-> IF Ended(st, i) THEN "none" ELSE st.ctx[i]],
       !.startPc = [i \in Sessions |-> IF Ended(st, i) THEN "none" ELSE st.startPc[i]]]

\* the step that leaves the component in state st
Becomes(st) ==
    \E s \in {st} : \E n \in {Forget(s)} :
    /\ variant' = variant
    /\ status' = n.status
    /\ isRecording' = n.isRecording
    /\ currentText' = n.currentText
    /\ history' = n.history
    /\ buffer' = n.buffer
    /\ permanent' = n.permanent
    /\ sessionRef' = n.sessionRef
    /\ streamRef' = n.streamRef
    /\ audioContextRef' = n.audioContextRef
    /\ conn' = n.conn
    /\ stream' = n.stream
    /\ ctx' = n.ctx
    /\ startPc' = n.startPc
    /\ awaiting' = n.awaiting
    /\ processor' = n.processor
    /\ frames' = n.frames
    /\ lastCall' = n.lastCall

\* useState / useRef initial values; no session exists
InitialState ==
    [ status |-> "idle", isRecording |-> FALSE, currentText |-> << >>,
      history |-> << >>, buffer |-> << >>, permanent |-> << >>,
      sessionRef |-> 0, streamRef |-> 0, audioContextRef |-> 0,
      conn |-> [i \in Sessions |-> "none"],
      stream |-> [i \in Sessions |-> "none"],
      ctx |-> [i \in Sessions |-> "none"],
      startPc |-> [i \in Sessions |-> "none"],
      awaiting |-> [i \in Sessions |-> FALSE],
      processor |-> [i \in Sessions |-> "none"],
      frames |-> 0, lastCall |-> "none" ]

\* the component is in state st
IsState(st) ==
    /\ status = st.status
    /\ isRecording = st.isRecording
    /\ currentText = st.currentText
    /\ history = st.history
    /\ buffer = st.buffer
    /\ permanent = st.permanent
    /\ sessionRef = st.sessionRef
    /\ streamRef = st.streamRef
    /\ audioContextRef = st.audioContextRef
    /\ conn = st.conn
    /\ stream = st.stream
    /\ ctx = st.ctx
    /\ startPc = st.startPc
    /\ awaiting = st.awaiting
    /\ processor = st.processor
    /\ frames = st.frames
    /\ lastCall = st.lastCall

Init ==
    /\ variant \in Variants
    /\ IsState(InitialState)

\* the characters the transcript texts hold
RECURSIVE SumLen(_)
SumLen(texts) == IF texts = << >> THEN 0 ELSE Len(Head(texts)) + SumLen(Tail(texts))

TotalChars == Len(buffer) + Len(permanent) + SumLen(history)

(***************************************************************************)
(* Flushing the pending transcript into history                            *)
(***************************************************************************)
\* finalizeTurn saves a text only when text.length > 2
FinalizeTurnFloor == 2
\* saveSnippet saves a text only when text.length > 3
SaveSnippetFloor == 3

\* the pending transcript, trimmed: what the variant's flush would save
pendingText(st) ==
    IF variant = "P2"
    THEN trim(st.permanent \o << " " >> \o st.buffer)
    ELSE trim(st.buffer)

\* P1: finalizeTurn
finalizeTurn(st) ==
    LET text == trim(st.buffer)
        saved == IF Len(text) > FinalizeTurnFloor
                 THEN [st EXCEPT !.history = Append(@, text), !.currentText = << >>]
                 ELSE st
    IN [saved EXCEPT !.buffer = << >>, !.currentText = << >>]

\* P3a: saveSnippet
saveSnippet(st) ==
    LET text == trim(st.buffer)
        saved == IF Len(text) > SaveSnippetFloor
                 THEN [st EXCEPT !.history = Append(@, text), !.currentText = << >>]
                 ELSE st
    IN [saved EXCEPT !.buffer = << >>, !.currentText = << >>]

\* P2 (permanent + " " + turnDelta) and P3b (master transcript): saveToHistory
saveToHistory(st) ==
    LET finalTranscript == IF variant = "P2"
                           THEN trim(st.permanent \o << " " >> \o st.buffer)
                           ELSE trim(st.buffer)
        saved == IF Len(finalTranscript) > 0
                 THEN [st EXCEPT !.history = Append(@, finalTranscript),
                                 !.currentText = << >>]
                 ELSE st
    IN [saved EXCEPT !.buffer = << >>, !.permanent = << >>, !.currentText = << >>]

(***************************************************************************)
(* Teardown                                                                *)
(***************************************************************************)
\* the variants whose teardown calls sessionRef.current.close()
ClosesSession == variant \in {"App", "P0", "P3a"}

\* the variants whose startSession awaits the connect promise inside its try
AwaitsConnect == variant \in {"App", "P0", "P3a"}

\* session.close(): the socket starts closing; its close event comes later
closeConnection(c) == IF c \in {"open", "errored"} THEN "closing" ELSE c

\* the first two ifs of cleanup / stopListening: the session and the stream
releaseSessionAndStream(st) ==
    LET s1 == IF st.sessionRef # 0
              THEN [st EXCEPT !.conn[st.sessionRef] =
                                  IF ClosesSession THEN closeConnection(@) ELSE @,
                              !.sessionRef = 0]
              ELSE st
    IN IF s1.streamRef # 0
       THEN [s1 EXCEPT !.stream[s1.streamRef] = "stopped", !.streamRef = 0]
       ELSE s1

\* audioContextRef.current.close() on the running context id, awaited by the
\* caller
beginContextClose(st, id) ==
    [st EXCEPT !.ctx[id] = "closing", !.awaiting[id] = TRUE]

\* the teardown run in st calls close() on a context that close() was called
\* on before: such a call rejects with InvalidStateError
ClosesContextAgain(st) ==
    /\ st.audioContextRef # 0
    /\ st.ctx[st.audioContextRef] \in {"closing", "closed"}

\* cleanup (P0, P1, P2, P3a, P3b).  A rejected close() is swallowed by the
\* try/catch and the ref is cleared at once.
cleanup(st) ==
    LET s2 == releaseSessionAndStream(st) IN
    IF s2.audioContextRef # 0
    THEN IF ClosesContextAgain(s2)
         THEN [s2 EXCEPT !.audioContextRef = 0]
         ELSE beginContextClose(s2, s2.audioContextRef)
    ELSE s2

\* the flush without transcriptionBuffer.current = ''
stopListeningFlush_KeepBuffer(st) ==
    IF trim(st.buffer) # << >>
    THEN [st EXCEPT !.history = Append(@, trim(st.buffer)), !.currentText = << >>,
                    !.isRecording = FALSE, !.status = "idle"]
    ELSE [st EXCEPT !.currentText = << >>, !.isRecording = FALSE, !.status = "idle"]

\* App: the last part of stopListening, after the context is closed
stopListeningFlush(st) ==
    IF trim(st.buffer) # << >>
    THEN [st EXCEPT !.history = Append(@, trim(st.buffer)), !.currentText = << >>,
                    !.isRecording = FALSE, !.status = "idle", !.buffer = << >>]
    ELSE [st EXCEPT !.currentText = << >>, !.isRecording = FALSE, !.status = "idle"]

\* App: stopListening up to its await.  A rejected close() is not caught: it
\* ends the call before the ref is cleared and before the flush.
stopListening(st) ==
    LET s2 == releaseSessionAndStream(st) IN
    IF s2.audioContextRef # 0
    THEN IF ClosesContextAgain(s2)
         THEN s2
         ELSE beginContextClose(s2, s2.audioContextRef)
    ELSE stopListeningFlush(s2)

\* the buffer saved as it is whenever it holds a character
stopSessionP0_SaveUntrimmed(st) ==
    LET s1 == IF st.buffer # << >>
              THEN [st EXCEPT !.history = Append(@, st.buffer),
                              !.currentText = << >>, !.isRecording = FALSE,
                              !.status = "idle"]
              ELSE [st EXCEPT !.currentText = << >>, !.isRecording = FALSE,
                              !.status = "idle"]
    IN cleanup([s1 EXCEPT !.buffer = << >>])

\* P0: stopSession
stopSessionP0(st) ==
    LET s1 == IF trim(st.buffer) # << >>
              THEN [st EXCEPT !.history = Append(@, trim(st.buffer)),
                              !.currentText = << >>, !.isRecording = FALSE,
                              !.status = "idle"]
              ELSE [st EXCEPT !.currentText = << >>, !.isRecording = FALSE,
                              !.status = "idle"]
    IN cleanup([s1 EXCEPT !.buffer = << >>])

\* P1, P2, P3a, P3b: stopSession = flush; setState(idle); await cleanup()
stopSessionFlushFirst(st) ==
    LET s1 == CASE variant = "P1" -> finalizeTurn(st)
                [] variant = "P3a" -> saveSnippet(st)
                [] OTHER -> saveToHistory(st)
    IN cleanup([s1 EXCEPT !.isRecording = FALSE, !.status = "idle"])

\* the stop function of the running variant
stopSession(st) ==
    LET s0 == [st EXCEPT !.lastCall = IF @ \in {"stop", "stopAgain"}
                                      THEN "stopAgain" ELSE "stop"] IN
    CASE variant = "App" -> stopListening(s0)
      [] variant = "P0" -> stopSessionP0(s0)
      [] OTHER -> stopSessionFlushFirst(s0)

\* what runs when the awaited close() settles: the rest of cleanup, and in
\* App the rest of stopListening
afterContextClose(st) ==
    IF variant = "App"
    THEN stopListeningFlush([st EXCEPT !.audioContextRef = 0])
    ELSE [st EXCEPT !.audioContextRef = 0]

\* the catch block of startSession / startListening
startFailed(st) ==
    LET s1 == [st EXCEPT !.status = "error", !.isRecording = FALSE] IN
    IF variant = "App" THEN s1 ELSE cleanup(s1)

(***************************************************************************)
(* The callbacks of ai.live.connect                                        *)
(***************************************************************************)
\* message.serverContent?.turnComplete
turnComplete(m) == m.tc

\* onmessage, per variant
onmessageFn(st, m) ==
    CASE variant = "App" ->
           IF m.it
           THEN LET b == st.buffer \o ToStr(m.text) IN
                [st EXCEPT !.buffer = b, !.currentText = b]
           ELSE st
      [] variant = "P0" ->
           LET s1 == IF m.it
                     THEN LET b == st.buffer \o ToStr(m.text) IN
                          [st EXCEPT !.buffer = b, !.currentText = b]
                     ELSE st
           IN IF turnComplete(m) /\ trim(s1.buffer) # << >>
              THEN [s1 EXCEPT !.history = Append(@, trim(s1.buffer)),
                              !.currentText = << >>, !.buffer = << >>]
              ELSE s1
      [] variant \in {"P1", "P3a"} ->
           LET s1 == IF m.it /\ Truthy(m.text)
                     THEN LET b == st.buffer \o m.text IN
                          [st EXCEPT !.buffer = b, !.currentText = b]
                     ELSE st
           IN IF turnComplete(m)
              THEN (IF variant = "P1" THEN finalizeTurn(s1) ELSE saveSnippet(s1))
              ELSE s1
      [] variant = "P2" ->
           LET s1 == IF m.it
                     THEN LET d == st.buffer \o ToStr(m.text)
                              fullText == trim(st.permanent \o << " " >> \o d)
                          IN [st EXCEPT !.buffer = d,
                                        !.currentText = stripNonRoman(fullText)]
                     ELSE st
           IN IF turnComplete(m)
              THEN [s1 EXCEPT !.permanent = trim(s1.permanent \o << " " >> \o s1.buffer),
                              !.buffer = << >>]
              ELSE s1
      [] OTHER ->  \* P3b
           IF m.it /\ Truthy(m.text)
           THEN LET updated == appendVerbatim(st.buffer, m.text) IN
                IF updated # st.buffer
                THEN [st EXCEPT !.buffer = updated, !.currentText = updated]
                ELSE st
           ELSE st

\* onerror: setState(status: 'error'); stopSession()
onerrorFn(st) == stopSession([st EXCEPT !.status = "error"])

\* onclose: setState(isRecording: false, status: 'idle')
oncloseFn(st) == [st EXCEPT !.isRecording = FALSE, !.status = "idle"]

\* the variants that create the ScriptProcessor in startSession, before the
\* connection is open; the others create it in onopen
ProcessorAtStart == variant \in {"P2", "P3b"}

\* session.sendRealtimeInput({media}) on the session of connection id: the
\* frame goes out when the socket is open, and is lost otherwise
sendRealtimeInput(st, id) ==
    IF st.conn[id] = "open" THEN [st EXCEPT !.frames = @ + 1] ELSE st

\* onopen, then the continuations of the resolved connect promise in the
\* order of their registration: sessionRef.current = session (P1 stored the
\* promise itself at connect), then the frames queued by onaudioprocess
onopenFn(st, i) ==
    LET s1 == [st EXCEPT !.status = "listening",
                         !.processor[i] =
                             IF ~ProcessorAtStart /\ st.ctx[i] = "running"
                             THEN "on" ELSE @]
        s2 == IF s1.startPc[i] = "awaitConnect"
              THEN [s1 EXCEPT !.sessionRef = i, !.startPc[i] = "done"]
              ELSE s1
    IN IF s2.processor[i] = "queued"
       THEN sendRealtimeInput([s2 EXCEPT !.processor[i] = "on"], i)
       ELSE s2

\* processor.onaudioprocess of session i, with a frame loud enough to be sent.
\* App, P0, P1, P2: sessionPromise.then(session => session.sendRealtimeInput);
\* P3a: sessionRef.current, or nothing when it is null; P3b: activeSessionRef
\* .current, or the promise when it is null.
onaudioprocessFn(st, i) ==
    LET viaPromise == IF st.conn[i] = "pending"
                      THEN [st EXCEPT !.processor[i] = "queued"]
                      ELSE sendRealtimeInput(st, i)
    IN CASE variant = "P3a" ->
              IF st.sessionRef = 0 THEN st ELSE sendRealtimeInput(st, st.sessionRef)
         [] variant = "P3b" ->
              IF st.sessionRef # 0
              THEN sendRealtimeInput(st, st.sessionRef)
              ELSE viaPromise
         [] OTHER -> viaPromise

(***************************************************************************)
(* startSession / startListening                                           *)
(***************************************************************************)
\* the id the next session gets: the first one no session uses
FreeId(st) ==
    CHOOSE i \in Sessions :
        st.startPc[i] = "none" /\ \A j \in 1..(i - 1) : st.startPc[j] # "none"

\* startSession up to await getUserMedia.  startListening (App) resets
\* neither currentText nor its buffer.
startSessionFn(st) ==
    LET keep == (variant = "App") IN
    [st EXCEPT !.status = "connecting", !.isRecording = TRUE, !.lastCall = "start",
               !.currentText = IF keep THEN @ ELSE << >>,
               !.buffer = IF keep THEN @ ELSE << >>,
               !.permanent = IF keep THEN @ ELSE << >>,
               !.startPc[FreeId(st)] = "awaitMedia"]

\* getUserMedia resolved: the stream and the context are stored and connect
\* is called.  P1 stores the promise and returns; the others wait for it.
getUserMediaResolvedFn(st, i) ==
    [st EXCEPT !.stream[i] = "live", !.streamRef = i,
               !.ctx[i] = "running", !.audioContextRef = i,
               !.conn[i] = "pending",
               !.processor[i] = IF ProcessorAtStart THEN "on" ELSE @,
               !.sessionRef = IF variant = "P1" THEN i ELSE @,
               !.startPc[i] = IF variant = "P1" THEN "done" ELSE "awaitConnect"]

(***************************************************************************)
(* Actions                                                                 *)
(***************************************************************************)
\* P1, P2, P3a, P3b render a full-screen overlay (fixed inset-0 z-[200]) while
\* status is 'error'; its only control is a button that reloads the page
HasReloadButton == variant \in {"P1", "P2", "P3a", "P3b"}

\* the error overlay covers the controls of the page
OverlayShown == HasReloadButton /\ status = "error"

\* click on the start button: rendered when !isRecording, disabled while
\* status is 'connecting'
startSession ==
    /\ ~OverlayShown
    /\ ~isRecording
    /\ status # "connecting"
    /\ \E i \in Sessions : startPc[i] = "none"
    /\ Becomes(startSessionFn(Cur))

\* getUserMedia resolves
getUserMediaResolved(i) ==
    /\ startPc[i] = "awaitMedia"
    /\ Becomes(getUserMediaResolvedFn(Cur, i))

\* getUserMedia rejects (permission denied): the catch block
getUserMediaRejected(i) ==
    /\ startPc[i] = "awaitMedia"
    /\ Becomes(startFailed([Cur EXCEPT !.startPc[i] = "done"]))

\* the awaited connect promise rejects: the catch block
connectRejected(i) ==
    /\ AwaitsConnect
    /\ startPc[i] = "awaitConnect"
    /\ conn[i] \in {"pending", "errored", "closed"}
    /\ Becomes(startFailed([Cur EXCEPT !.startPc[i] = "done",
                                       !.conn[i] = "closed"]))

\* the remote confirms open
onopen(i) ==
    /\ conn[i] = "pending"
    /\ Becomes(onopenFn([Cur EXCEPT !.conn[i] = "open"], i))

\* the running AudioContext of session i hands a buffer to its processor
onaudioprocess(i) ==
    /\ ctx[i] = "running"
    /\ processor[i] = "on"
    /\ frames + Cardinality({ j \in Sessions : processor[j] = "queued" }) < MaxFrames
    /\ Becomes(onaudioprocessFn(Cur, i))

\* an inbound message of an open connection
onmessage(i, m) ==
    /\ conn[i] = "open"
    /\ Becomes(onmessageFn(Cur, m))

\* an Error event of the connection
onerror(i) ==
    /\ conn[i] \in {"pending", "open"}
    /\ Becomes(onerrorFn([Cur EXCEPT !.conn[i] = "errored"]))

\* the Closed event: remote-initiated, after an error, or after session.close()
onclose(i) ==
    /\ conn[i] \in {"pending", "open", "errored", "closing"}
    /\ Becomes(oncloseFn([Cur EXCEPT !.conn[i] = "closed"]))

\* click on the stop button, rendered when isRecording
stopClick ==
    /\ ~OverlayShown
    /\ isRecording
    /\ Becomes(stopSession(Cur))

\* the AudioContext finishes closing; the call awaiting it resumes
contextClosed(i) ==
    /\ ctx[i] = "closing"
    /\ LET s1 == [Cur EXCEPT !.ctx[i] = "closed", !.awaiting[i] = FALSE] IN
       Becomes(IF awaiting[i] THEN afterContextClose(s1) ELSE s1)

\* the clear button, rendered when history is not empty (confirm accepted)
clearHistory ==
    /\ ~OverlayShown
    /\ history # << >>
    /\ Becomes([Cur EXCEPT !.history = << >>])

\* the button of the error overlay: window.location.reload()
reload ==
    /\ OverlayShown
    /\ Becomes(InitialState)

(***************************************************************************)
(* Spec: the whole life of the component, over several sessions            *)
(***************************************************************************)
\* the messages of Spec: a delta "hi", a bare turnComplete
LifeMsgs ==
    { [it |-> TRUE, text |-> << "h", "i" >>, tc |-> FALSE],
      [it |-> FALSE, text |-> Undefined, tc |-> TRUE] }

Next ==
    \/ startSession
    \/ \E i \in Sessions : getUserMediaResolved(i)
    \/ \E i \in Sessions : getUserMediaRejected(i)
    \/ \E i \in Sessions : connectRejected(i)
    \/ \E i \in Sessions : onopen(i)
    \/ \E i \in Sessions : onaudioprocess(i)
    \/ \E i \in Sessions, m \in LifeMsgs : TotalChars < MaxChars /\ onmessage(i, m)
    \/ \E i \in Sessions : onerror(i)
    \/ \E i \in Sessions : onclose(i)
    \/ stopClick
    \/ \E i \in Sessions : contextClosed(i)
    \/ clearHistory
    \/ reload

Spec == Init /\ [][Next]_vars

(***************************************************************************)
(* SpecTranscript: one session, from the moment it listens, with every     *)
(* kind of inbound message                                                 *)
(***************************************************************************)
\* the state after startSession, getUserMedia resolved and onopen
ListeningState ==
    Forget(onopenFn([getUserMediaResolvedFn(startSessionFn(InitialState), 1)
                         EXCEPT !.conn[1] = "open"], 1))

InitTranscript ==
    /\ variant \in Variants
    /\ IsState(ListeningState)

NextTranscript ==
    \/ \E i \in Sessions, m \in Msgs : TotalChars < MaxChars /\ onmessage(i, m)
    \/ \E i \in Sessions : onerror(i)
    \/ \E i \in Sessions : onclose(i)
    \/ stopClick
    \/ \E i \in Sessions : contextClosed(i)

SpecTranscript == InitTranscript /\ [][NextTranscript]_vars

(***************************************************************************)
(* SpecAssembler: the master transcript of P3b under sequences of deltas   *)
(***************************************************************************)
\* a delta is delivered while the master transcript holds fewer words
MaxWords == 5

\* "the quick brown"
TxtTheQuickBrown ==
    << "t", "h", "e", " ", "q", "u", "i", "c", "k", " ", "b", "r", "o", "w", "n" >>

\* "the quick brown fox"
TxtTheQuickBrownFox ==
    << "t", "h", "e", " ", "q", "u", "i", "c", "k", " ", "b", "r", "o", "w", "n", " ", "f", "o", "x" >>

\* "I want to"
TxtIWantTo ==
    << "I", " ", "w", "a", "n", "t", " ", "t", "o" >>

\* "want to build"
TxtWantToBuild ==
    << "w", "a", "n", "t", " ", "t", "o", " ", "b", "u", "i", "l", "d" >>

\* "build an app"
TxtBuildAnApp ==
    << "b", "u", "i", "l", "d", " ", "a", "n", " ", "a", "p", "p" >>

\* "hello world"
TxtHelloWorld ==
    << "h", "e", "l", "l", "o", " ", "w", "o", "r", "l", "d" >>

\* "completely different"
TxtCompletelyDifferent ==
    << "c", "o", "m", "p", "l", "e", "t", "e", "l", "y", " ", "d", "i", "f", "f", "e", "r", "e", "n", "t" >>

\* "I want to build an app"
TxtIWantToBuildAnApp ==
    << "I", " ", "w", "a", "n", "t", " ", "t", "o", " ", "b", "u", "i", "l", "d", " ", "a", "n", " ", "a", "p", "p" >>

\* "hello world completely different"
TxtHelloWorldCompletelyDifferent ==
    << "h", "e", "l", "l", "o", " ", "w", "o", "r", "l", "d", " ", "c", "o", "m", "p", "l", "e", "t", "e", "l", "y", " ", "d", "i", "f", "f", "e", "r", "e", "n", "t" >>

\* short deltas: repeated words, upper case, blanks around and between
\* words, characters outside ASCII
ShortDeltas ==
    { << >>, << " " >>, << "a" >>, << "A" >>, << "b" >>,
      << "a", " ", "a" >>, << "a", " ", "b" >>, << "b", " ", "a" >>,
      << "A", " ", "b" >>, << "a", " ", "a", " ", "b" >>,
      << " ", "a" >>, << "b", " " >>, << "a", " ", " ", "b" >>, << "a", "\t", "b" >>,
      << NonAscii >>, << "a", NonAscii >>, << NonAscii, " ", "b" >> }

AsmDeltas ==
    ShortDeltas \cup
    { TxtTheQuickBrown, TxtTheQuickBrownFox, TxtIWantTo, TxtWantToBuild,
      TxtBuildAnApp, TxtHelloWorld, TxtCompletelyDifferent }

\* the message that carries delta d and nothing else
DeltaMsg(d) == [it |-> TRUE, text |-> d, tc |-> FALSE]

InitAssembler ==
    /\ variant = "P3b"
    /\ IsState(ListeningState)

NextAssembler ==
    \E d \in AsmDeltas :
        /\ Len(splitWords(buffer)) < MaxWords
        /\ onmessage(1, DeltaMsg(d))

SpecAssembler == InitAssembler /\ [][NextAssembler]_vars

(***************************************************************************)
(* Properties of the assembler (SpecAssembler)                             *)
(***************************************************************************)
\* committed: the words of a transcript text
Committed(text) == splitWords(text)

\* the words of an incoming delta, as step 1 and 2 of onDelta read them:
\* characters outside ASCII removed, split at blanks
IncomingWords(d) == splitWords(stripNonRoman(d))

IsPrefixOf(u, v) == Len(u) <= Len(v) /\ SubSeq(v, 1, Len(u)) = u

\* two word sequences of the same length agree word by word, ignoring case
SameWordsIgnoringCase(u, v) ==
    /\ Len(u) = Len(v)
    /\ \A k \in 1..Len(u) : toLowerCase(u[k]) = toLowerCase(v[k])

\* the lengths L at which the last L committed words are the first L
\* incoming words, within the window
MatchLengths(committed, incoming) ==
    { L \in 1..Min(OverlapWindow, Min(Len(committed), Len(incoming))) :
        SameWordsIgnoringCase(SubSeq(committed, Len(committed) - L + 1, Len(committed)),
                              SubSeq(incoming, 1, L)) }

Largest(S) == CHOOSE x \in S : \A y \in S : y <= x

\* C1: append-only transcript.  In every onDelta step (onmessage applying
\* appendVerbatim to the master transcript) the committed words before the
\* step are a prefix of the committed words after it: the word count never
\* decreases and no appended word is edited or removed.
C1_AppendOnly ==
    [][ /\ IsPrefixOf(Committed(buffer), Committed(buffer'))
        /\ Len(Committed(buffer)) <= Len(Committed(buffer')) ]_vars

\* a delta was appended behind an earlier one
C1_Witness ==
    /\ variant = "P3b"
    /\ buffer = TxtHelloWorldCompletelyDifferent
    /\ currentText = buffer

\* C2: overlap de-duplication.  When committed is not empty and its last L
\* words are the first L words of the incoming delta (1 <= L <= 8, L the
\* overlap found: the longest such, compared ignoring case), the step appends
\* exactly the incoming words after position L.  The two scenarios of the
\* specification give "the quick brown fox" and "I want to build an app".
C2_Examples ==
    /\ appendVerbatim(appendVerbatim(<< >>, TxtTheQuickBrown), TxtTheQuickBrownFox)
         = TxtTheQuickBrownFox
    /\ Committed(TxtTheQuickBrownFox)
         = << << "t", "h", "e" >>, << "q", "u", "i", "c", "k" >>,
              << "b", "r", "o", "w", "n" >>, << "f", "o", "x" >> >>
    /\ appendVerbatim(appendVerbatim(appendVerbatim(<< >>, TxtIWantTo),
                                     TxtWantToBuild), TxtBuildAnApp)
         = TxtIWantToBuildAnApp

C2_OverlapDedup ==
    [][ /\ \A d \in AsmDeltas :
             LET c == Committed(buffer)
                 w == IncomingWords(d)
                 m == MatchLengths(c, w)
             IN (onmessage(1, DeltaMsg(d)) /\ c # << >> /\ m # {})
                  => Committed(buffer') = c \o SubSeq(w, Largest(m) + 1, Len(w))
        /\ C2_Examples ]_vars

\* the third delta of the scenario was merged into the first two
C2_Witness ==
    /\ variant = "P3b"
    /\ buffer = TxtIWantToBuildAnApp

\* C3: no-overlap append.  When no suffix of the last 8 committed words is a
\* prefix of the incoming delta, the step appends every word of the delta, in
\* order; "hello world" then "completely different" gives the four words.
C3_Examples ==
    /\ appendVerbatim(appendVerbatim(<< >>, TxtHelloWorld), TxtCompletelyDifferent)
         = TxtHelloWorldCompletelyDifferent
    /\ Len(Committed(TxtHelloWorldCompletelyDifferent)) = 4

C3_NoOverlapAppend ==
    [][ /\ \A d \in AsmDeltas :
             LET c == Committed(buffer)
                 w == IncomingWords(d)
             IN (onmessage(1, DeltaMsg(d)) /\ MatchLengths(c, w) = {})
                  => Committed(buffer') = c \o w
        /\ C3_Examples ]_vars

\* two deltas without a common word have both been appended to "b"
C3_Witness ==
    /\ variant = "P3b"
    /\ Committed(buffer) = << << "b" >>, << "a" >>, << "h", "e", "l", "l", "o" >>,
                              << "w", "o", "r", "l", "d" >> >>

(***************************************************************************)
(* Properties of flushing and of inbound messages (SpecTranscript)         *)
(***************************************************************************)
\* a stop call reaches its flush in this step: at once in the variants that
\* flush before the teardown, after the awaited close() in App
StopReachesFlush ==
    \/ variant # "App" /\ stopClick
    \/ variant = "App" /\ stopClick /\ audioContextRef = 0
    \/ variant = "App" /\ \E i \in Sessions : awaiting[i] /\ contextClosed(i)

\* C4: stop flush.  Whenever the pending transcript is not empty after
\* trimming, a stop call (stopSession / stopListening) appends exactly one
\* Snippet to history, its text the trimmed pending transcript, and leaves
\* the pending transcript empty.
C4_StopFlush ==
    [][ (StopReachesFlush /\ pendingText(Cur) # << >>)
          => /\ history' = Append(history, pendingText(Cur))
             /\ pendingText(Cur)' = << >> ]_vars

\* a delta that holds no word: empty or blanks only
IsBlankDelta(m) ==
    /\ m.it
    /\ m.text # Undefined
    /\ \A k \in 1..Len(m.text) : IsSpace(m.text[k])

\* C5: empty-delta no-op.  A delta that is empty or holds only blanks never
\* changes the committed words of the pending transcript and never adds a
\* Snippet to history, in any state: history and the committed words after
\* the message are those the same message without the delta leaves, and
\* without a turn-complete signal they are those before the message.
C5_EmptyDeltaNoOp ==
    [][ \A i \in Sessions, m \in Msgs :
          (IsBlankDelta(m) /\ onmessage(i, m))
            => LET without == onmessageFn(Cur, [m EXCEPT !.it = FALSE]) IN
               /\ history' = without.history
               /\ Committed(pendingText(Cur)') = Committed(pendingText(without))
               /\ ~m.tc => /\ history' = history
                           /\ Committed(pendingText(Cur)')
                                = Committed(pendingText(Cur)) ]_vars

\* a blank delta arrived behind the delta "hi" (P0 concatenates the texts)
C5_Witness ==
    /\ variant = "P0"
    /\ buffer = << "h", "i", " " >>
    /\ history = << >>

\* C9: flush on failure.  When an Error event arrives while the pending
\* transcript is not empty after trimming, a Snippet with that text is added
\* to history before the session ends: the text is in history after the
\* handler, or still pending for the flush the handler awaits; it is never
\* discarded.
C9_FlushOnFailure ==
    [][ \A i \in Sessions :
          (onerror(i) /\ pendingText(Cur) # << >>)
            => \/ history' = Append(history, pendingText(Cur))
               \/ /\ \E j \in Sessions : awaiting'[j]
                  /\ variant = "App"
                  /\ pendingText(Cur)' = pendingText(Cur) ]_vars

\* C10: remote close is a normal stop.  When the Closed event arrives while
\* status is connecting or listening and no Error preceded it, status moves
\* to idle and a pending transcript that is not empty after trimming is
\* flushed into history as a Snippet.
C10_RemoteCloseFlushes ==
    [][ \A i \in Sessions :
          (onclose(i) /\ conn[i] \in {"pending", "open"}
                      /\ status \in {"connecting", "listening"})
            => /\ status' = "idle"
               /\ pendingText(Cur) # << >>
                    => history' = Append(history, pendingText(Cur)) ]_vars

(***************************************************************************)
(* Properties of the status (Spec)                                         *)
(***************************************************************************)
\* C6: start legality.  start takes effect only when status is idle: status
\* never moves to connecting from a status other than idle.
C6_StartOnlyFromIdle ==
    [][ (status' = "connecting" /\ status # "connecting") => status = "idle" ]_vars

\* stop is invoked in this step: by the stop button, or by the onerror
\* callback, which sets status to error and calls stop
StopInvoked == stopClick \/ \E i \in Sessions : onerror(i)

\* C7: stop from idle is a no-op.  A stop invoked while status is idle
\* leaves history, the live transcript and the pending buffer unchanged, emits
\* no Snippet, and does not change status (a stop by the stop button leaves
\* status idle).
C7_StopFromIdleNoOp ==
    [][ (status = "idle" /\ StopInvoked)
          => /\ history' = history
             /\ currentText' = currentText
             /\ buffer' = buffer
             /\ permanent' = permanent
             /\ stopClick => status' = "idle" ]_vars

\* C8: Error is sticky.  After an Error event of the remote session status
\* is error, and status leaves error only by an explicit reset (the reload
\* button); no other step moves status from error to idle.
C8_ErrorSticky ==
    [][ /\ (\E i \in Sessions : onerror(i)) => status' = "error"
        /\ (status = "error" /\ status' = "idle") => reload ]_vars

(***************************************************************************)
(* Properties of the resources of a session (Spec)                         *)
(***************************************************************************)
\* session i holds the microphone: a MediaStream whose tracks run, or an
\* AudioContext that was not closed
HoldsCapture(i) == stream[i] = "live" \/ ctx[i] = "running"

\* C11: capture device released on every exit path.  Whenever a session has
\* ended (user stop, Error event, remote Closed event, exception during
\* acquisition) its stream and audio context are released: in no reachable
\* state is status idle or error while a session still holds the capture
\* device.
C11_CaptureReleased ==
    status \in {"idle", "error"} => \A i \in Sessions : ~HoldsCapture(i)

\* C12: connection released on every exit path.  When a session ends by a
\* user stop or an Error event, its connection is closed: after the stop no
\* confirmed connection remains open.
C12_ConnectionReleased ==
    [][ StopInvoked => \A i \in Sessions : conn'[i] # "open" ]_vars

\* C13: cancellation during connecting.  A stop invoked while status is
\* connecting and the connect promise of session i is pending releases the
\* connection that is not confirmed yet and the capture device; and when the
\* remote later confirms a session whose stream was stopped, no open
\* connection is left.
C13_CancelWhileConnecting ==
    [][ \A i \in Sessions :
          /\ (stopClick /\ status = "connecting" /\ conn[i] = "pending")
               => /\ conn'[i] \in {"closing", "closed", "none"}
                  /\ stream'[i] # "live"
                  /\ ctx'[i] # "running"
          /\ (onopen(i) /\ stream[i] = "stopped") => conn'[i] # "open" ]_vars

\* the sessions that hold a resource: the capture device or a connection
LiveSessions ==
    { i \in Sessions : HoldsCapture(i) \/ conn[i] \in {"pending", "open"} }

\* C14: single live session.  At most one session's resources (stream, audio
\* context, connection) are live at any time: a start that allocates a new
\* session happens only after the resources of the session before it were
\* torn down, also after a remote close.
C14_SingleLiveSession == Cardinality(LiveSessions) <= 1

(***************************************************************************)
(* Properties of the Snippets (SpecTranscript)                             *)
(***************************************************************************)
\* C15: every Snippet of history has a text that is not empty and equals its
\* own trimmed form; no sequence of deltas, turn-complete signals, stops,
\* errors and closes adds an empty or blank Snippet.
C15_SnippetsTrimmedNonEmpty ==
    \A k \in 1..Len(history) :
        /\ history[k] # << >>
        /\ trim(history[k]) = history[k]

\* a Snippet was saved and a text of blanks only is pending behind it
C15_Witness ==
    /\ variant = "P0"
    /\ history = << << "h", "i" >> >>
    /\ buffer = << " " >>

\* the variants whose onmessage flushes the pending transcript when a message
\* carries turnComplete (App and P3b ignore the signal, P2 moves the turn into
\* its permanent transcript)
PerTurnMode == variant \in {"P0", "P1", "P3a"}

\* a message that carries turnComplete and no delta
IsTurnComplete(m) == m.tc /\ ~m.it

\* C16: per-turn snippet mode.  When a turn-complete signal arrives and the
\* pending transcript is not empty after trimming, exactly one Snippet with
\* the trimmed pending text is appended to history at once and the pending
\* transcript is cleared; a pending text of any trimmed length above zero is
\* emitted, never cleared without a Snippet.
C16_PerTurnSnippet ==
    [][ \A i \in Sessions, m \in Msgs :
          (PerTurnMode /\ IsTurnComplete(m) /\ onmessage(i, m)
                       /\ pendingText(Cur) # << >>)
            => /\ history' = Append(history, pendingText(Cur))
               /\ pendingText(Cur)' = << >> ]_vars

(***************************************************************************)
(* Properties of the end and of the begin of a session (Spec)              *)
(***************************************************************************)
\* the running session ends in this step: by the stop button, an Error event,
\* a Closed event that no error or close() preceded, or an exception during
\* acquisition
SessionEnds ==
    /\ status \in {"connecting", "listening"}
    /\ \/ stopClick
       \/ \E i \in Sessions : onerror(i)
       \/ \E i \in Sessions : conn[i] \in {"pending", "open"} /\ onclose(i)
       \/ \E i \in Sessions : getUserMediaRejected(i)
       \/ \E i \in Sessions : connectRejected(i)

\* C17: onStop runs exactly once per session.  For every session started the
\* flush-and-clear operation has been executed once by the time the session
\* has ended, however it ended: after the step that ends the session no
\* pending text is left (in App: or the stop call that will flush it awaits
\* the close of the audio context).
C17_OnStopOncePerSession ==
    [][ (SessionEnds /\ pendingText(Cur) # << >>)
          => \/ pendingText(Cur)' = << >>
             \/ variant = "App" /\ \E j \in Sessions : awaiting'[j] ]_vars

\* C18: fresh buffer per session.  The transcript buffer is empty whenever a
\* new session begins (status moves to connecting), so that no text of an
\* earlier session appears in the live transcript or the Snippets of a later
\* one.
C18_FreshBufferPerSession ==
    [][ (status # "connecting" /\ status' = "connecting")
          => /\ buffer' = << >>
             /\ permanent' = << >>
             /\ currentText' = << >> ]_vars

(***************************************************************************)
(* SpecWindow: the master transcript of P3b under deltas of eight words    *)
(* and more                                                                *)
(***************************************************************************)
\* a delta is delivered while the master transcript holds fewer words
MaxWindowWords == 10

\* the text of one-letter words, a blank between them
WordsText(letters) == join([k \in 1..Len(letters) |-> << letters[k] >>])

Letters8 == << "a", "b", "c", "d", "e", "f", "g", "h" >>
Letters9 == Letters8 \o << "i" >>
Repeated9 == [k \in 1..9 |-> "a"]

\* deltas of 8, 9 and 10 words, and short ones
WindowDeltas ==
    { WordsText(Letters8), WordsText(Letters8 \o << "x" >>),
      WordsText(Letters9), WordsText(Letters9 \o << "x" >>),
      WordsText(Repeated9), WordsText(Repeated9 \o << "b" >>),
      WordsText(<< "x" >>), WordsText(<< "h", "a" >>),
      WordsText(<< "g", "h", "y" >>) }

NextWindow ==
    \E d \in WindowDeltas :
        /\ Len(splitWords(buffer)) < MaxWindowWords
        /\ onmessage(1, DeltaMsg(d))

SpecWindow == InitAssembler /\ [][NextWindow]_vars

TrueOverlaps(committed, incoming) ==
    { n \in 1..Min(Len(committed), Len(incoming)) :
        SameWordsIgnoringCase(SubSeq(committed, Len(committed) - n + 1, Len(committed)),
                              SubSeq(incoming, 1, n)) }

\* the overlap a search over the last 8 committed words detects: 0 for none
DetectedIn8(committed, incoming) ==
    LET within == { n \in TrueOverlaps(committed, incoming) : n <= 8 }
    IN IF within = {} THEN 0 ELSE Largest(within)

IsMalformed(m) ==
    /\ ~m.tc
    /\ (m.it => m.text = Undefined)

\* C21: a malformed inbound message (an inputTranscription without text, or
\* no recognised field at all) is dropped: the transcript buffer, the live
\* transcript and history stay as they were.
C21_MalformedDropped ==
    [][ \A i \in Sessions, m \in Msgs :
          (onmessage(i, m) /\ IsMalformed(m))
            => UNCHANGED << buffer, permanent, currentText, history >> ]_vars

(***************************************************************************)
(* The overlap length and the casing of committed words (SpecAssembler)    *)
(***************************************************************************)
\* the overlap length the loop of appendVerbatim finds for committed words c
\* and incoming words w (-1: none)
UsedOverlap(c, w) ==
    overlapIndex(c, w, Min(Min(Len(c), Len(w)), OverlapWindow))

\* C22: longest case-insensitive overlap.  The overlap length onDelta uses is
\* the largest L, 1 <= L <= min(8, |committed|, |incoming|), at which the last
\* L committed words equal the first L incoming words ignoring case; of
\* several matching L the largest is taken (the step adds |incoming| - L
\* words), and the words already committed keep their casing.
C22_LongestOverlap ==
    [][ \A d \in AsmDeltas :
          LET c == Committed(buffer)
              w == IncomingWords(d)
              m == MatchLengths(c, w)
          IN (onmessage(1, DeltaMsg(d)) /\ c # << >> /\ m # {})
               => /\ UsedOverlap(c, w) = Largest(m)
                  /\ Len(Committed(buffer')) = Len(c) + Len(w) - Largest(m)
                  /\ SubSeq(Committed(buffer'), 1, Len(c)) = c ]_vars

\* "a a b" met the committed word "A": the overlap was found ignoring case,
\* and the committed word is still written "A"
C22_Witness ==
    /\ variant = "P3b"
    /\ Committed(buffer) = << << "A" >>, << "a" >>, << "b" >> >>

(***************************************************************************)
(* The live transcript as a string (SpecAssembler)                         *)
(***************************************************************************)
\* C23: canonical live transcript.  After every onDelta the live transcript
\* (currentText) is the committed words joined by single spaces: no leading,
\* trailing or repeated whitespace, whatever whitespace the deltas held.
C23_CanonicalLive ==
    [][ \A d \in AsmDeltas :
          onmessage(1, DeltaMsg(d))
            => currentText' = join(Committed(buffer')) ]_vars

(***************************************************************************)
(* Audio frames (Spec)                                                     *)
(***************************************************************************)
\* C24: audio is forwarded only while Listening.  A step that sends an audio
\* frame over a connection (the remote confirmed it open) is taken with
\* status Listening: never in Idle, Connecting or Error, not after a remote
\* Closed event and not after stop.
C24_AudioOnlyWhileListening ==
    [][ frames' # frames => status' = "listening" ]_vars

(***************************************************************************)
(* Leaving Connecting without the user and without the remote (Spec)       *)
(***************************************************************************)
\* the steps that are neither a click of the user nor an event of the
\* remote service: settled browser promises, audio callbacks, timers
LocalStep ==
    \/ \E i \in Sessions : getUserMediaResolved(i)
    \/ \E i \in Sessions : getUserMediaRejected(i)
    \/ \E i \in Sessions : contextClosed(i)
    \/ \E i \in Sessions : onaudioprocess(i)

\* status is Connecting and the start call waits for the remote service only
WaitsForRemote ==
    /\ status = "connecting"
    /\ \E i \in Sessions : conn[i] = "pending" /\ streamRef = i
    /\ \A i \in Sessions : startPc[i] # "awaitMedia"

\* C25: Connecting cannot last forever.  While a session waits in Connecting
\* for the remote service, a step that needs neither the user nor the remote
\* service (a connect timeout) is able to take status out of Connecting.
C25_ConnectTimeout ==
    WaitsForRemote => ENABLED (LocalStep /\ status' # "connecting")

(***************************************************************************)
(* Teardown run again (Spec)                                               *)
(***************************************************************************)
\* a step that runs the teardown: stop, by the button or by onerror, and in
\* the variants with cleanup() the catch block of the start call
TeardownRuns ==
    \/ stopClick
    \/ \E i \in Sessions : onerror(i)
    \/ variant # "App" /\ \E i \in Sessions : getUserMediaRejected(i) \/ connectRejected(i)

\* C26: teardown is idempotent and order-independent.  A teardown that runs
\* again, also while an earlier one still awaits the close of the audio
\* context, closes no resource a second time and raises no error: it never
\* calls close() on a context that is closing or closed.
C26_TeardownIdempotent ==
    [][ TeardownRuns => ~ClosesContextAgain(Cur) ]_vars

(***************************************************************************)
(* isRecording and status (Spec)                                           *)
(***************************************************************************)
\* C27: in every reachable state isRecording is true exactly when status is
\* Connecting or Listening, and false whenever status is Idle or Error.
C27_RecordingMatchesStatus ==
    isRecording <=> status \in {"connecting", "listening"}

(***************************************************************************)
(* Late callbacks of a stopped session (Spec)                              *)
(***************************************************************************)
\* stop was called, no start was called since, and status is Idle: a
\* session that still exists is a stopped one
StoppedInIdle ==
    /\ status = "idle"
    /\ lastCall \in {"stop", "stopAgain"}

\* C28: a late open confirmation cannot resurrect a stopped session.  Once
\* stop has moved status to Idle, status stays Idle until the next start: an
\* onopen of the stopped session that fires afterwards leaves status Idle.
C28_NoResurrection ==
    [][ \A i \in Sessions :
          (StoppedInIdle /\ onopen(i)) => status' = "idle" ]_vars

\* C29: messages of an ended session have no effect.  After stop has
\* completed (nothing awaits a close any more) and status is Idle, a delta or
\* a turn-complete message that the connection of the stopped session still
\* delivers changes neither the transcript buffer, nor the live transcript,
\* nor history.
C29_StaleMessagesIgnored ==
    [][ \A i \in Sessions, m \in LifeMsgs :
          ( /\ StoppedInIdle
            /\ \A j \in Sessions : ~awaiting[j]
            /\ onmessage(i, m) )
            => UNCHANGED << buffer, permanent, currentText, history >> ]_vars

(***************************************************************************)
(* SpecSingle: sessions one after the other, each started only when the    *)
(* one before has ended completely                                         *)
(***************************************************************************)
NextSingle ==
    \/ startPc[1] = "none" /\ startSession
    \/ getUserMediaResolved(1)
    \/ getUserMediaRejected(1)
    \/ connectRejected(1)
    \/ onopen(1)
    \/ \E m \in LifeMsgs : TotalChars < MaxChars /\ onmessage(1, m)
    \/ onerror(1)
    \/ onclose(1)
    \/ stopClick
    \/ contextClosed(1)
    \/ clearHistory
    \/ reload

SpecSingle == Init /\ [][NextSingle]_vars

\* stop is invoked in this step and was invoked before, with no start between
StopInvokedAgain ==
    /\ lastCall \in {"stop", "stopAgain"}
    /\ StopInvoked

\* C30: no pending text is emitted twice.  A step that adds a Snippet adds
\* one and leaves the pending transcript empty, so that no later stop finds
\* the emitted text again; and when stop is invoked a second time for the
\* same session (by onerror and by the button, also while the first call
\* awaits the close of the audio context) with nothing new pending, history
\* stays as it is.
C30_NoDoubleEmission ==
    [][ /\ Len(history') > Len(history)
          => /\ Len(history') = Len(history) + 1
             /\ buffer' = << >>
             /\ permanent' = << >>
        /\ (StopInvokedAgain /\ pendingText(Cur) = << >>)
          => history' = history ]_vars

\* "hi" was pending when stop was invoked; stop was invoked again while the
\* first call awaits the close of the context; history holds "hi" once
C30_Witness ==
    /\ lastCall = "stopAgain"
    /\ awaiting[1]
    /\ history = << << "h", "i" >> >>
    /\ buffer = << >>

====
